---- MODULE Spec2Model ----
(***************************************************************************)
(* Index lifecycle of the RAG question-answering assistant.                *)
(*                                                                         *)
(*   src/src/indexer.py   RAGIndexer.create_or_load_index                  *)
(*   src/qa.py            setup_index, rebuild_index                       *)
(*   src/src/ingestion.py DocumentIngestion.process                        *)
(*   src/config.py        Config.validate                                  *)
(*                                                                         *)
(* The persisted storage directory (Config.STORAGE_DIR) is modelled by the *)
(* files the index library writes into it: the document store (chunk       *)
(* records and index structure) and the vector store (one vector per       *)
(* chunk).  They are written one after the other by persist(), so that a   *)
(* failure in between leaves the directory partly written.                 *)
(***************************************************************************)
EXTENDS Integers, Sequences, FiniteSets, TLC

VARIABLES disk, index, last, prev, ing

vars == <<disk, index, last, prev, ing>>

\* Number of distinct chunks (and documents) the model draws inputs from.
MaxChunk == 2

\* Number of tokens of the longest sentence of a document.
MaxTokens == 2

Chunks == 1..MaxChunk

RECURSIVE Ascending(_, _)
\* The ascending sequence of the members of S that are >= lo.
Ascending(S, lo) ==
    IF \A c \in S : c < lo THEN <<>>
    ELSE LET m == CHOOSE c \in S : c >= lo /\ \A e \in S : e >= lo => c <= e
         IN  <<m>> \o Ascending(S, m + 1)

\* The chunk lists a caller can pass: every selection of chunks, in order.
NodeLists == { Ascending(S, 1) : S \in SUBSET Chunks }

\* The nodes argument: Python None, or a list (possibly empty).
NoNodes == [given |-> FALSE, list |-> <<>>]
NodeArgs == {NoNodes} \cup { [given |-> TRUE, list |-> l] : l \in NodeLists }

\* The embedding model maps a chunk's text to its vector.
Embed(c) == [vec_of |-> c]
EmbedAll(l) == [i \in 1..Len(l) |-> Embed(l[i])]

----------------------------------------------------------------------------
\* Files of the storage directory.
AbsentFile == [st |-> "absent", data |-> <<>>]
BadFile    == [st |-> "bad", data |-> <<>>]
OkFile(x)  == [st |-> "ok", data |-> x]

AbsentDisk == [dir |-> FALSE, docstore |-> AbsentFile, vector_store |-> AbsentFile]

\* self.index of a RAGIndexer: None, or an index holding chunks and vectors.
NoIndex == [set |-> FALSE, nodes |-> <<>>, vectors |-> <<>>]
Index(n, v) == [set |-> TRUE, nodes |-> n, vectors |-> v]

\* os.path.exists(Config.STORAGE_DIR)
PathExists(d) == d.dir

\* LoadFromStorage, were the vectors read back in the opposite order.
LoadFromStorageReversed(d) ==
    IF d.docstore.st = "ok" /\ d.vector_store.st = "ok"
    THEN [ok |-> TRUE,
          index |-> Index(d.docstore.data,
                          [i \in 1..Len(d.vector_store.data) |->
                              d.vector_store.data[Len(d.vector_store.data) + 1 - i]])]
    ELSE [ok |-> FALSE, index |-> NoIndex]

\* StorageContext.from_defaults(persist_dir) followed by
\* load_index_from_storage: succeeds when every file is present and parses;
\* the files are not checked against each other.
LoadFromStorage(d) ==
    IF d.docstore.st = "ok" /\ d.vector_store.st = "ok"
    THEN [ok |-> TRUE, index |-> Index(d.docstore.data, d.vector_store.data)]
    ELSE [ok |-> FALSE, index |-> NoIndex]

\* What a caller would call the state of the storage location.
StorageClass(d) ==
    IF ~PathExists(d) THEN "absent"
    ELSE IF LoadFromStorage(d).ok THEN "valid" ELSE "corrupt"

----------------------------------------------------------------------------
\* Error values a caller can observe.
ErrNoIndex   == "ValueError: No existing index found and no nodes provided"
ErrEmbedding == "embedding call failed"
ErrPersist   == "OSError while persisting"
ErrApiKey    == "ValueError: OPENAI_API_KEY not found"
ErrDocsDir   == "ValueError: Documents directory not found"
ErrNoFiles   == "ValueError: No files found"
ErrZeroDiv   == "ZeroDivisionError"

\* UseStored, were the storage location never looked at.
UseStoredNever(d, nodes) == FALSE

\* UseStored, were the stored index used only when no nodes are passed.
UseStoredOnlyWithoutNodes(d, nodes) ==
    ~nodes.given /\ PathExists(d) /\ LoadFromStorage(d).ok

\* The load branch is taken whenever the directory exists and loads; the
\* nodes argument plays no part in the decision.
UseStored(d, nodes) == PathExists(d) /\ LoadFromStorage(d).ok

\* NodesMissing, were the check made against the empty list and not None.
NodesMissingWhenEmptyList(nodes) == nodes.given /\ Len(nodes.list) = 0

\* if nodes is None: raise ValueError(...)
NodesMissing(nodes) == ~nodes.given

\* BuildIndex, were a failed embedding call skipped instead of raised.
BuildIndexPartial(l, embedFail) ==
    IF embedFail > 0 /\ embedFail <= Len(l)
    THEN [ok |-> TRUE,
          index |-> Index(SubSeq(l, 1, embedFail - 1),
                          EmbedAll(SubSeq(l, 1, embedFail - 1))),
          calls |-> embedFail]
    ELSE [ok |-> TRUE, index |-> Index(l, EmbedAll(l)), calls |-> Len(l)]

\* VectorStoreIndex(nodes): one embedding per chunk, in order.  embedFail = k > 0
\* makes the k-th embedding call fail, which fails the constructor.
BuildIndex(l, embedFail) ==
    IF embedFail > 0 /\ embedFail <= Len(l)
    THEN [ok |-> FALSE, index |-> NoIndex, calls |-> embedFail]
    ELSE [ok |-> TRUE, index |-> Index(l, EmbedAll(l)), calls |-> Len(l)]

\* How far persist() got: the directory is created, then the document store
\* is written, then the vector store; a file being written is unreadable
\* until its write completes.
PartialStages == {"mkdir", "docstore_partial", "docstore", "vector_partial"}

\* Persist, were the vector store never written.
PersistWithoutVectors(d, ix, stage) ==
    [dir |-> TRUE,
     docstore |->
         IF stage \in {"docstore", "vector_partial", "done"} THEN OkFile(ix.nodes)
         ELSE IF stage = "docstore_partial" THEN BadFile
         ELSE d.docstore,
     vector_store |-> d.vector_store]

\* Persist, were a file written only where none is there yet.
PersistKeepsExisting(d, ix, stage) ==
    [dir |-> TRUE,
     docstore |->
         IF d.docstore.st # "absent" THEN d.docstore
         ELSE IF stage \in {"docstore", "vector_partial", "done"} THEN OkFile(ix.nodes)
         ELSE IF stage = "docstore_partial" THEN BadFile
         ELSE d.docstore,
     vector_store |->
         IF d.vector_store.st # "absent" THEN d.vector_store
         ELSE IF stage = "done" THEN OkFile(ix.vectors)
         ELSE IF stage = "vector_partial" THEN BadFile
         ELSE d.vector_store]

\* self.index.storage_context.persist(persist_dir=Config.STORAGE_DIR),
\* stopped after `stage` ("done": it returned).
Persist(d, ix, stage) ==
    [dir |-> TRUE,
     docstore |->
         IF stage \in {"docstore", "vector_partial", "done"} THEN OkFile(ix.nodes)
         ELSE IF stage = "docstore_partial" THEN BadFile
         ELSE d.docstore,
     vector_store |->
         IF stage = "done" THEN OkFile(ix.vectors)
         ELSE IF stage = "vector_partial" THEN BadFile
         ELSE d.vector_store]

\* The faults the environment can inject into the persist step: none, an
\* I/O error raised to the caller, or the death of the process.
FaultInputs ==
    {<<"none", "done">>}
    \cup { <<f, stage>> : f \in {"error", "crash"}, stage \in PartialStages }

Outcome(d, ix, result, err, path, calls) ==
    [disk |-> d, index |-> ix, result |-> result, err |-> err, path |-> path,
     embedCalls |-> calls]

\* CreateOrLoad, were a newly built index returned without being persisted.
CreateOrLoadWithoutPersist(d, ix, nodes, embedFail, fault, stage) ==
    IF UseStored(d, nodes)
    THEN Outcome(d, LoadFromStorage(d).index, "ok", "none", "load", 0)
    ELSE IF NodesMissing(nodes)
    THEN Outcome(d, ix, "raised", ErrNoIndex, "none", 0)
    ELSE LET b == BuildIndex(nodes.list, embedFail)
         IN  IF ~b.ok
             THEN Outcome(d, ix, "raised", ErrEmbedding, "build", b.calls)
             ELSE Outcome(d, b.index, "ok", "none", "build", b.calls)

\* RAGIndexer.create_or_load_index(nodes) on an indexer whose self.index is ix.
CreateOrLoad(d, ix, nodes, embedFail, fault, stage) ==
    IF UseStored(d, nodes)
    THEN Outcome(d, LoadFromStorage(d).index, "ok", "none", "load", 0)
    ELSE IF NodesMissing(nodes)
    THEN Outcome(d, ix, "raised", ErrNoIndex, "none", 0)
    ELSE LET b == BuildIndex(nodes.list, embedFail)
         IN  IF ~b.ok
             THEN Outcome(d, ix, "raised", ErrEmbedding, "build", b.calls)
             ELSE IF fault = "none"
             THEN Outcome(Persist(d, b.index, "done"), b.index, "ok", "none",
                          "build", b.calls)
             ELSE IF fault = "error"
             THEN Outcome(Persist(d, b.index, stage), b.index, "raised",
                          ErrPersist, "build", b.calls)
             ELSE Outcome(Persist(d, b.index, stage), NoIndex, "crash", "none",
                          "build", b.calls)

----------------------------------------------------------------------------
\* Validate, were the documents directory not looked at.
ValidateKeyOnly(apiKey, docsDir) ==
    IF ~apiKey THEN ErrApiKey ELSE "none"

\* Config.validate()
Validate(apiKey, docsDir) ==
    IF ~apiKey THEN ErrApiKey
    ELSE IF ~docsDir THEN ErrDocsDir
    ELSE "none"

\* LoadDocuments, were only the first file read.
LoadDocumentsFirstOnly(docs) ==
    IF Len(docs) = 0 THEN [ok |-> FALSE, err |-> ErrNoFiles, documents |-> <<>>]
    ELSE [ok |-> TRUE, err |-> "none", documents |-> <<docs[1]>>]

\* DocumentIngestion.load_documents(): the reader refuses an empty directory.
LoadDocuments(docs) ==
    IF Len(docs) = 0 THEN [ok |-> FALSE, err |-> ErrNoFiles, documents |-> <<>>]
    ELSE [ok |-> TRUE, err |-> "none", documents |-> docs]

\* DocumentIngestion.chunk_documents(documents): every document of the model
\* is shorter than the chunk size and yields one chunk; the average chunk
\* size divides by the number of chunks.
ChunkDocuments(documents) ==
    LET nodes == [i \in 1..Len(documents) |-> documents[i]]
    IN  IF Len(nodes) = 0 THEN [ok |-> FALSE, err |-> ErrZeroDiv, nodes |-> <<>>]
        ELSE [ok |-> TRUE, err |-> "none", nodes |-> nodes]

\* DocumentIngestion.process()
Process(docs) ==
    LET ld == LoadDocuments(docs)
    IN  IF ~ld.ok THEN [ok |-> FALSE, err |-> ld.err, nodes |-> <<>>]
        ELSE ChunkDocuments(ld.documents)

SetupOutcome(d, ix, result, err, path, calls, ingested) ==
    [disk |-> d, index |-> ix, result |-> result, err |-> err, path |-> path,
     embedCalls |-> calls, ingested |-> ingested]

\* qa.setup_index(): validate, construct an indexer, try to load, and on any
\* exception ingest the documents and build.  Any exception ends the process
\* with status 1.
SetupIndexOp(d, apiKey, docsDir, docs, embedFail, fault, stage) ==
    IF Validate(apiKey, docsDir) # "none"
    THEN SetupOutcome(d, NoIndex, "exit1", Validate(apiKey, docsDir), "none", 0, FALSE)
    ELSE LET first == CreateOrLoad(d, NoIndex, NoNodes, 0, "none", "done")
         IN  IF first.result = "ok"
             THEN SetupOutcome(first.disk, first.index, "ok", "none", first.path,
                               first.embedCalls, FALSE)
             ELSE IF first.result = "crash"
             THEN SetupOutcome(first.disk, NoIndex, "crash", "none", first.path,
                               first.embedCalls, FALSE)
             ELSE LET p == Process(docs)
                  IN  IF ~p.ok
                      THEN SetupOutcome(first.disk, NoIndex, "exit1", p.err, "none",
                                        first.embedCalls, TRUE)
                      ELSE LET second == CreateOrLoad(first.disk, first.index,
                                             [given |-> TRUE, list |-> p.nodes],
                                             embedFail, fault, stage)
                           IN  IF second.result = "ok"
                               THEN SetupOutcome(second.disk, second.index, "ok", "none",
                                        second.path, second.embedCalls, TRUE)
                               ELSE IF second.result = "crash"
                               THEN SetupOutcome(second.disk, NoIndex, "crash", "none",
                                        second.path, second.embedCalls, TRUE)
                               ELSE SetupOutcome(second.disk, NoIndex, "exit1",
                                        second.err, second.path, second.embedCalls, TRUE)

\* RmTree, were the files removed and the directory left in place.
RmTreeKeepsDirectory(d) ==
    IF PathExists(d)
    THEN [dir |-> TRUE, docstore |-> AbsentFile, vector_store |-> AbsentFile]
    ELSE d

\* RmTree, were the existence test inverted.
RmTreeInverted(d) == IF ~PathExists(d) THEN AbsentDisk ELSE d

\* shutil.rmtree(Config.STORAGE_DIR) when the directory exists.
RmTree(d) == IF PathExists(d) THEN AbsentDisk ELSE d

----------------------------------------------------------------------------
\* Config.TOP_K and Config.RESPONSE_MODE
TOP_K == 3
RESPONSE_MODE == "compact"

ErrNotInitialized == "ValueError: Index not initialized. Call create_or_load_index() first."

\* An optional argument: None, or a value.
None == [given |-> FALSE, val |-> 0]
NoneMode == [given |-> FALSE, val |-> ""]
Some(x) == [given |-> TRUE, val |-> x]

\* `x or default` of Python: the default replaces None and every falsy value.
OrDefault(x, default) ==
    IF x.given /\ x.val # 0 THEN x.val ELSE default
OrDefaultMode(x, default) ==
    IF x.given /\ x.val # "" THEN x.val ELSE default

\* The arguments worth telling apart: absent, falsy, and a value that is not
\* the default.
TopKArgs == {None, Some(0), Some(MaxChunk)}
ModeArgs == {NoneMode, Some("refine")}

NoArgs == [top_k |-> None, mode |-> NoneMode]
NoEngine == [made |-> FALSE, top_k |-> 0, mode |-> "none"]
Engine(top_k, mode) == [made |-> TRUE, top_k |-> top_k, mode |-> mode]

\* NotInitialized, were only an empty index refused.
NotInitializedWhenEmpty(ix) == ix.set /\ Len(ix.nodes) = 0

\* `if self.index is None` of get_query_engine and get_retriever.
NotInitialized(ix) == ~ix.set

\* RAGIndexer.get_query_engine(similarity_top_k, response_mode)
GetQueryEngineOp(ix, similarity_top_k, response_mode) ==
    IF NotInitialized(ix)
    THEN [result |-> "raised", err |-> ErrNotInitialized, made |-> NoEngine]
    ELSE [result |-> "ok", err |-> "none",
          made |-> Engine(OrDefault(similarity_top_k, TOP_K),
                          OrDefaultMode(response_mode, RESPONSE_MODE))]

\* RAGIndexer.get_retriever(similarity_top_k)
GetRetrieverOp(ix, similarity_top_k) ==
    IF NotInitialized(ix)
    THEN [result |-> "raised", err |-> ErrNotInitialized, made |-> NoEngine]
    ELSE [result |-> "ok", err |-> "none",
          made |-> Engine(OrDefault(similarity_top_k, TOP_K), "retriever")]

----------------------------------------------------------------------------
\* Config.CHUNK_SIZE and Config.CHUNK_OVERLAP
CHUNK_SIZE == 512
CHUNK_OVERLAP == 50

ErrSplitter == "ValueError: chunk size and chunk overlap rejected by SentenceSplitter"
ErrMetadata == "ValueError: Metadata length is longer than chunk size"

\* The chunk_size and chunk_overlap a caller can pass to DocumentIngestion.
SizeArgs == {None, Some(0), Some(0 - 1)} \cup { Some(n) : n \in 1..(MaxTokens + 1) }
OverlapArgs == {None, Some(0), Some(1)}

\* DocumentIngestion.__init__(chunk_size, chunk_overlap)
NewIngestion(chunk_size, chunk_overlap) ==
    [chunk_size |-> OrDefault(chunk_size, CHUNK_SIZE),
     chunk_overlap |-> OrDefault(chunk_overlap, CHUNK_OVERLAP)]

\* A text is a sequence of sentences, each a number of one-token words; the
\* tokenizer yields a token per `width` characters of the text.
Toks == 1..MaxTokens
Texts == { <<a>> : a \in Toks } \cup { <<a, b>> : a \in Toks, b \in Toks }
CharsPerToken == {1, 4}

\* The metadata a reader attaches to the i-th document, if it attaches any.
Metadata(i, withMeta) ==
    IF withMeta THEN {<<"file_name", i>>, <<"file_path", i>>} ELSE {}

\* The document lists handed to chunk_documents: every text is non-empty.
DocLists(withMeta) ==
    UNION { { [i \in 1..n |-> [text |-> t[i], metadata |-> Metadata(i, withMeta)]] :
                t \in [1..n -> Texts] } : n \in 0..MaxChunk }

RECURSIVE SumTokens(_)
SumTokens(seq) == IF seq = <<>> THEN 0 ELSE Head(seq).n + SumTokens(Tail(seq))

RECURSIVE TextTokens(_)
TextTokens(text) == IF text = <<>> THEN 0 ELSE Head(text) + TextTokens(Tail(text))

\* The tokens of the metadata string: at least one per entry.
MetadataLen(md) == Cardinality(md)

\* EffectiveSize, were the metadata counted twice.
EffectiveSizeCountsTwice(chunk_size, md) ==
    chunk_size - MetadataLen(md) - MetadataLen(md)

\* split_text_metadata_aware: the chunk size left for the text of a document.
EffectiveSize(chunk_size, md) == chunk_size - MetadataLen(md)

\* SentenceSplitter._split: the whole text when it fits; otherwise its
\* sentences, a sentence that does not fit being cut into its words.
Piece(s, w, n, sent) == [text |-> <<<<s, w>>>>, n |-> n, is_sentence |-> sent]

RECURSIVE Splits(_, _, _)
Splits(text, s, size) ==
    IF s > Len(text) THEN <<>>
    ELSE (IF text[s] <= size
          THEN <<Piece(s, 0, text[s], TRUE)>>
          ELSE [w \in 1..text[s] |-> Piece(s, w, 1, FALSE)])
         \o Splits(text, s + 1, size)

SplitText(text, size) ==
    IF TextTokens(text) <= size
    THEN << [text |-> [s \in 1..Len(text) |-> <<s, 0>>], n |-> TextTokens(text),
             is_sentence |-> TRUE] >>
    ELSE Splits(text, 1, size)

\* close_chunk of SentenceSplitter._merge: the next chunk starts with the
\* longest tail of the closed one that fits the overlap.
RECURSIVE OverlapFrom(_, _, _, _)
OverlapFrom(closed, i, len, overlap) ==
    IF i >= 1 /\ len + closed[i].n <= overlap
    THEN OverlapFrom(closed, i - 1, len + closed[i].n, overlap)
    ELSE i + 1

OverlapTail(closed, overlap) ==
    SubSeq(closed, OverlapFrom(closed, Len(closed), 0, overlap), Len(closed))

\* SentenceSplitter._merge: splits are packed into chunks of at most `size`
\* tokens; the first split of a chunk is taken whatever the overlap holds.
RECURSIVE Merge(_, _, _, _, _, _)
Merge(splits, chunks, cur, new, size, overlap) ==
    IF splits = <<>>
    THEN (IF new THEN chunks ELSE Append(chunks, cur))
    ELSE LET sp == Head(splits)
             len == SumTokens(cur)
         IN  IF len + sp.n > size /\ ~new
             THEN Merge(splits, Append(chunks, cur), OverlapTail(cur, overlap),
                        TRUE, size, overlap)
             ELSE IF sp.is_sentence \/ len + sp.n <= size \/ new
             THEN Merge(Tail(splits), chunks, Append(cur, sp), FALSE, size, overlap)
             ELSE Merge(splits, Append(chunks, cur), OverlapTail(cur, overlap),
                        TRUE, size, overlap)

RECURSIVE Join(_)
Join(chunk) == IF chunk = <<>> THEN <<>> ELSE Head(chunk).text \o Join(Tail(chunk))

\* NodesOfDoc, were the chunks built without the metadata of their document.
NodesOfDocBare(documents, i, size, overlap, width) ==
    LET chunks == Merge(SplitText(documents[i].text,
                                  EffectiveSize(size, documents[i].metadata)),
                        <<>>, <<>>, TRUE,
                        EffectiveSize(size, documents[i].metadata), overlap)
    IN  [k \in 1..Len(chunks) |->
            [doc |-> i, metadata |-> {}, text |-> Join(chunks[k]),
             tokens |-> SumTokens(chunks[k]),
             chars |-> SumTokens(chunks[k]) * width]]

\* The nodes SentenceSplitter builds from the i-th document: one per chunk
\* of its text, each with the metadata of the document.
NodesOfDoc(documents, i, size, overlap, width) ==
    LET chunks == Merge(SplitText(documents[i].text,
                                  EffectiveSize(size, documents[i].metadata)),
                        <<>>, <<>>, TRUE,
                        EffectiveSize(size, documents[i].metadata), overlap)
    IN  [k \in 1..Len(chunks) |->
            [doc |-> i, metadata |-> documents[i].metadata, text |-> Join(chunks[k]),
             tokens |-> SumTokens(chunks[k]),
             chars |-> SumTokens(chunks[k]) * width]]

RECURSIVE NodesFrom(_, _, _, _, _)
NodesFrom(documents, i, size, overlap, width) ==
    IF i > Len(documents) THEN <<>>
    ELSE NodesOfDoc(documents, i, size, overlap, width)
             \o NodesFrom(documents, i + 1, size, overlap, width)

ChunkOutcome(result, err, nodes) == [result |-> result, err |-> err, nodes |-> nodes]
NotChunked == ChunkOutcome("none", "none", <<>>)

\* DocumentIngestion.chunk_documents(documents) of an instance configured
\* with chunk_size and chunk_overlap.
ChunkDocumentsWith(chunk_size, chunk_overlap, documents, width) ==
    IF chunk_overlap > chunk_size \/ chunk_size <= 0
    THEN ChunkOutcome("raised", ErrSplitter, <<>>)
    ELSE IF \E i \in 1..Len(documents) :
                EffectiveSize(chunk_size, documents[i].metadata) <= 0
    THEN ChunkOutcome("raised", ErrMetadata, <<>>)
    ELSE LET nodes == NodesFrom(documents, 1, chunk_size, chunk_overlap, width)
         IN  IF Len(nodes) = 0
             THEN ChunkOutcome("raised", ErrZeroDiv, <<>>)
             ELSE ChunkOutcome("ok", "none", nodes)

\* A DocumentIngestion instance, the documents at hand, and what its
\* chunk_documents returned.
Ingestion(size, overlap, documents, width, out) ==
    [args |-> [chunk_size |-> size, chunk_overlap |-> overlap],
     chunk_size |-> NewIngestion(size, overlap).chunk_size,
     chunk_overlap |-> NewIngestion(size, overlap).chunk_overlap,
     documents |-> documents, width |-> width, out |-> out]

----------------------------------------------------------------------------
\* A running answer, or the response of the query engine: None, or a text.
NoAnswer == [given |-> FALSE, val |-> ""]
EmptyResponse == "Empty Response"
ErrCompletion == "ExternalServiceError: completion call failed"

\* What the language model can give back for one prompt: a text, which may
\* be empty, or a failure of the call.
LLMOutputs == {"", "a", "b"}
LLMFailed == "failed"

\* SynthesisPrompts, were refine mode to pack the chunks like compact mode.
SynthesisPromptsPacked(mode, results) ==
    IF Len(results) = 0 THEN <<>>
    ELSE << [i \in 1..Len(results) |-> results[i].chunk] >>

\* The prompts of the response synthesizer: refine takes the retrieved
\* chunks one at a time in ranked order; compact packs them into as few
\* prompts as the context window allows, here one.
SynthesisPrompts(mode, results) ==
    IF Len(results) = 0 THEN <<>>
    ELSE IF mode = "refine"
    THEN [i \in 1..Len(results) |-> <<results[i].chunk>>]
    ELSE << [i \in 1..Len(results) |-> results[i].chunk] >>

\* One completion call of the synthesizer: the chunks of its prompt, the
\* running answer it was given, and what it returned.
Call(chunks, running, out) == [chunks |-> chunks, running |-> running, out |-> out]

\* The running answer after the calls made so far.
Running(calls) ==
    IF Len(calls) = 0 THEN NoAnswer ELSE Some(calls[Len(calls)].out)

\* FinalResponse, were the text of the last call handed on as it is.
FinalResponseUnguarded(calls) ==
    IF Len(calls) = 0 THEN Some(EmptyResponse)
    ELSE Some(calls[Len(calls)].out)

\* The response of the query engine: "Empty Response" when nothing was
\* retrieved or the last call returned no text, else the text of the last
\* call.
FinalResponse(calls) ==
    IF Len(calls) = 0 THEN Some(EmptyResponse)
    ELSE IF calls[Len(calls)].out = "" THEN Some(EmptyResponse)
    ELSE Some(calls[Len(calls)].out)

\* SetupReturned, were a failed setup to hand back its indexer.
SetupReturnedAlways(s) == TRUE

\* setup_index returns its indexer only when nothing was raised; otherwise
\* sys.exit(1) ends the process, and `except Exception` of query does not
\* catch it.
SetupReturned(s) == s.result = "ok"

\* The settings a run of setup_index found: the API key and the documents
\* directory.
Env(apiKey, docsDir) == [apiKey |-> apiKey, docsDir |-> docsDir]
NoEnv == Env(TRUE, TRUE)

\* The record of the last operation: its inputs, the storage class it found,
\* and what its caller observed.
Record(op, fresh, nodes, docs, pre, result, err, path, calls, ingested) ==
    [op |-> op, fresh |-> fresh, nodes |-> nodes, docs |-> docs, pre |-> pre,
     result |-> result, err |-> err, path |-> path, embedCalls |-> calls,
     ingested |-> ingested, args |-> NoArgs, made |-> NoEngine, env |-> NoEnv,
     question |-> 0, results |-> <<>>, calls |-> <<>>, answer |-> NoAnswer,
     phase |-> "done", setup |-> "none"]

\* What is remembered of the operation before the last one: whether it
\* cleared the storage, completed a build, or died while persisting.
Summary(r) ==
    IF r.op = "rebuild_index"
    THEN (IF r.pre = "valid" THEN "cleared_valid" ELSE "cleared")
    ELSE IF r.op = "create_or_load_index" /\ r.path = "build" /\ r.result = "ok"
    THEN (IF r.pre = "absent" THEN "built_from_absent" ELSE "built_over_corrupt")
    ELSE IF r.path = "build" /\ r.result = "crash"
    THEN "crashed_in_persist"
    ELSE "other"

InitRecord ==
    Record("init", TRUE, NoNodes, <<>>, "absent", "ok", "none", "none", 0, FALSE)

Init ==
    /\ disk = AbsentDisk
    /\ index = NoIndex
    /\ last = InitRecord
    /\ prev = Summary(InitRecord)
    /\ ing = Ingestion(None, None, <<>>, 1, NotChunked)

\* The faults the environment can inject into a call that gets as far as
\* building from l: none, the failure of one embedding call, or a fault of
\* the persist step.  A call that never builds meets no fault.
Faults(builds, l) ==
    IF builds
    THEN { <<k, fs[1], fs[2]>> : k \in {0}, fs \in FaultInputs }
         \cup { <<k, "none", "done">> : k \in 1..Len(l) }
    ELSE { <<0, "none", "done">> }

\* indexer.create_or_load_index(nodes), on the indexer at hand or on a newly
\* constructed one.
CreateOrLoadIndex ==
    \E fresh \in BOOLEAN, nodes \in NodeArgs :
      \E ft \in Faults(~UseStored(disk, nodes) /\ ~NodesMissing(nodes), nodes.list) :
        /\ LET r == CreateOrLoad(disk, IF fresh THEN NoIndex ELSE index, nodes,
                                 ft[1], ft[2], ft[3])
           IN  /\ disk' = r.disk
               /\ index' = r.index
               /\ last' = Record("create_or_load_index", fresh, nodes, <<>>,
                                 StorageClass(disk), r.result, r.err, r.path,
                                 r.embedCalls, FALSE)
        /\ prev' = Summary(last)
        /\ ing' = ing

\* The environment of one run of setup_index: whether the API key and the
\* documents directory are there, and the documents in it.
SetupEnvs ==
    { <<a, d, docs>> \in BOOLEAN \X BOOLEAN \X NodeLists :
        (a /\ d) \/ docs = <<>> }

\* qa.setup_index() in a process of its own, over the current documents.
SetupIndex ==
    \E env \in SetupEnvs :
      \E ft \in Faults(env[1] /\ env[2] /\ ~UseStored(disk, NoNodes)
                         /\ Process(env[3]).ok, env[3]) :
        /\ LET r == SetupIndexOp(disk, env[1], env[2], env[3], ft[1], ft[2], ft[3])
           IN  /\ disk' = r.disk
               /\ index' = r.index
               /\ last' = [Record("setup_index", TRUE, NoNodes, env[3],
                                  StorageClass(disk), r.result, r.err, r.path,
                                  r.embedCalls, r.ingested)
                            EXCEPT !.env = Env(env[1], env[2])]
        /\ prev' = Summary(last)
        /\ ing' = ing

\* qa.rebuild_index()
RebuildIndex ==
    /\ disk' = RmTree(disk)
    /\ index' = index
    /\ last' = Record("rebuild_index", FALSE, NoNodes, <<>>, StorageClass(disk),
                      "ok", "none", "none", 0, FALSE)
    /\ prev' = Summary(last)
    /\ ing' = ing

\* The environment damages one readable file of the storage directory.
CorruptStorage ==
    \E f \in {"docstore", "vector_store"} :
        /\ PathExists(disk)
        /\ disk[f].st = "ok"
        /\ disk' = [disk EXCEPT ![f] = BadFile]
        /\ index' = index
        /\ last' = Record("corrupt", FALSE, NoNodes, <<>>, StorageClass(disk),
                          "ok", "none", "none", 0, FALSE)
        /\ prev' = Summary(last)
        /\ ing' = ing

Next == CreateOrLoadIndex \/ SetupIndex \/ RebuildIndex \/ CorruptStorage

Spec == Init /\ [][Next]_vars

----------------------------------------------------------------------------
\* An indexer asked for a query engine or a retriever between calls of
\* create_or_load_index.
QueryRecord(op, args, r) ==
    [Record(op, FALSE, NoNodes, <<>>, StorageClass(disk), r.result, r.err,
            "none", 0, FALSE) EXCEPT !.args = args, !.made = r.made]

\* indexer.get_query_engine(similarity_top_k, response_mode)
GetQueryEngine ==
    \E k \in TopKArgs, m \in ModeArgs :
        /\ last' = QueryRecord("get_query_engine", [top_k |-> k, mode |-> m],
                               GetQueryEngineOp(index, k, m))
        /\ prev' = Summary(last)
        /\ UNCHANGED <<disk, index, ing>>

\* indexer.get_retriever(similarity_top_k)
GetRetriever ==
    \E k \in TopKArgs :
        /\ last' = QueryRecord("get_retriever", [top_k |-> k, mode |-> NoneMode],
                               GetRetrieverOp(index, k))
        /\ prev' = Summary(last)
        /\ UNCHANGED <<disk, index, ing>>

NextQuery == CreateOrLoadIndex \/ RebuildIndex \/ GetQueryEngine \/ GetRetriever

SpecQuery == Init /\ [][NextQuery]_vars

----------------------------------------------------------------------------
\* The chunker on its own: an instance constructed with any arguments, over
\* any list of documents, is asked for its chunks.
InitChunk ==
    /\ disk = AbsentDisk
    /\ index = NoIndex
    /\ last = InitRecord
    /\ prev = Summary(InitRecord)
    /\ \E size \in SizeArgs, overlap \in OverlapArgs, withMeta \in BOOLEAN,
          width \in CharsPerToken :
         \E documents \in DocLists(withMeta) :
            ing = Ingestion(size, overlap, documents, width, NotChunked)

\* ingestion.chunk_documents(documents)
ChunkDocumentsCall ==
    /\ ing.out = NotChunked
    /\ ing' = [ing EXCEPT !.out = ChunkDocumentsWith(ing.chunk_size, ing.chunk_overlap,
                                                      ing.documents, ing.width)]
    /\ UNCHANGED <<disk, index, last, prev>>

NextChunk == ChunkDocumentsCall

SpecChunk == InitChunk /\ [][NextChunk]_vars

----------------------------------------------------------------------------
\* The step just taken was a call of create_or_load_index / its argument.
IsCall(r) == r.op = "create_or_load_index"
NonEmpty(nodes) == nodes.given /\ Len(nodes.list) > 0

\* The call met no injected fault (no embedding failure, no I/O error, no
\* death of the process).
Unfaulted(r) == r.result # "crash" /\ r.err \notin {ErrEmbedding, ErrPersist}

\* The handle the caller's indexer held when the call started.
HandleBefore(r, ix) == IF r.fresh THEN NoIndex ELSE ix

\* The storage holds exactly the index built from l.
Holds(d, l) ==
    /\ PathExists(d)
    /\ d.docstore = OkFile(l)
    /\ d.vector_store = OkFile(EmbedAll(l))

\* C1: whenever the storage location holds a loadable index,
\* create_or_load_index(nodes) returns the stored index for every nodes
\* argument, makes no embedding call, builds nothing and leaves the storage
\* as it was.
C1_LoadIgnoresNodes ==
    [][ (IsCall(last') /\ StorageClass(disk) = "valid") =>
            /\ last'.result = "ok"
            /\ last'.path = "load"
            /\ last'.embedCalls = 0
            /\ index'.set
            /\ index'.nodes = disk.docstore.data
            /\ index'.vectors = disk.vector_store.data
            /\ disk' = disk ]_vars

\* C1 witness: a call with chunks that differ from the stored ones returned
\* the stored index.
C1_Witness ==
    /\ IsCall(last) /\ last.pre = "valid" /\ last.result = "ok"
    /\ NonEmpty(last.nodes)
    /\ index.set /\ Len(index.nodes) > 0
    /\ index.nodes # last.nodes.list

\* C2: with no storage, create_or_load_index(X) for non-empty X builds an
\* index of exactly len(X) chunks and persists it; after a successful call a
\* further create_or_load_index(None), on the same or on a new indexer,
\* loads an index holding the same chunks and vectors.
C2_BuildThenLoad ==
    [][ /\ (IsCall(last') /\ ~PathExists(disk) /\ NonEmpty(last'.nodes)
              /\ Unfaulted(last')) =>
            /\ last'.result = "ok"
            /\ last'.path = "build"
            /\ index'.set
            /\ index'.nodes = last'.nodes.list
            /\ Len(index'.nodes) = Len(last'.nodes.list)
            /\ last'.embedCalls = Len(last'.nodes.list)
            /\ Holds(disk', last'.nodes.list)
        /\ (IsCall(last) /\ last.result = "ok" /\ IsCall(last')
              /\ ~last'.nodes.given) =>
            /\ last'.result = "ok"
            /\ last'.path = "load"
            /\ index' = index
            /\ (last.path = "build" => index'.nodes = last.nodes.list) ]_vars

\* C2 witness: a new indexer loaded what the call before it had built from
\* nothing.
C2_Witness ==
    /\ prev = "built_from_absent"
    /\ IsCall(last) /\ ~last.nodes.given /\ last.fresh
    /\ last.result = "ok" /\ last.path = "load"
    /\ Len(index.nodes) = MaxChunk

\* C3: with no storage, create_or_load_index(None) raises the "No existing
\* index found" error, leaves the indexer's handle as it was and creates no
\* storage.
C3_NoStorageNoNodesRaises ==
    [][ (IsCall(last') /\ ~PathExists(disk) /\ ~last'.nodes.given) =>
            /\ last'.result = "raised"
            /\ last'.err = ErrNoIndex
            /\ index' = HandleBefore(last', index)
            /\ disk' = disk
            /\ ~PathExists(disk') ]_vars

\* C3 witness: the call raised on a new indexer, whose handle is None.
C3_Witness ==
    /\ IsCall(last) /\ last.pre = "absent" /\ ~last.nodes.given
    /\ last.fresh /\ last.err = ErrNoIndex
    /\ ~index.set /\ ~PathExists(disk)

\* C4: when the load fails, create_or_load_index([]) fails with the
\* configuration error as it does for None: nothing is built, the handle is
\* not set and nothing is persisted.
C4_EmptyNodesRejected ==
    [][ (IsCall(last') /\ StorageClass(disk) # "valid"
              /\ last'.nodes.given /\ last'.nodes.list = <<>>) =>
            /\ last'.result = "raised"
            /\ last'.err = ErrNoIndex
            /\ index' = HandleBefore(last', index)
            /\ disk' = disk ]_vars

\* C5: rebuild_index only deletes: afterwards the storage location is absent
\* whether or not it existed, it reports no error, and it ingests nothing,
\* embeds nothing, builds nothing and persists nothing.
C5_RebuildOnlyDeletes ==
    [][ (last'.op = "rebuild_index") =>
            /\ ~PathExists(disk')
            /\ disk' = AbsentDisk
            /\ last'.result = "ok"
            /\ last'.embedCalls = 0
            /\ ~last'.ingested
            /\ last'.path = "none"
            /\ index' = index ]_vars

\* C5 witness: rebuild_index removed a storage that held a loadable index.
C5_Witness ==
    /\ last.op = "rebuild_index" /\ last.pre = "valid"
    /\ ~PathExists(disk)

\* C6: after any history, rebuild_index followed by create_or_load_index(None)
\* raises the "No existing index found" error.
C6_ClearThenLoadRaises ==
    [][ (last.op = "rebuild_index" /\ IsCall(last') /\ ~last'.nodes.given) =>
            /\ last'.result = "raised"
            /\ last'.err = ErrNoIndex
            /\ ~PathExists(disk') ]_vars

\* C6 witness: the load raised right after a loadable index was cleared.
C6_Witness ==
    /\ prev = "cleared_valid"
    /\ IsCall(last) /\ ~last.nodes.given
    /\ last.result = "raised" /\ last.err = ErrNoIndex

\* C7: after rebuild_index, the next successful setup_index ingests the
\* current documents, builds the index from them and persists it: the
\* storage is present again and holds the index of the current documents.
\* The same holds of every successful setup_index that finds no loadable
\* storage, as the runs that fail after a clear leave it.
C7_SetupAfterClearRebuilds ==
    [][ ((last.op = "rebuild_index" \/ StorageClass(disk) # "valid")
              /\ last'.op = "setup_index" /\ last'.result = "ok") =>
            /\ last'.ingested
            /\ last'.path = "build"
            /\ last'.embedCalls = Len(last'.docs)
            /\ Len(last'.docs) > 0
            /\ Holds(disk', last'.docs)
            /\ index' = Index(last'.docs, EmbedAll(last'.docs)) ]_vars

\* C7 witness: setup_index succeeded right after a loadable index was
\* cleared.
C7_Witness ==
    /\ prev = "cleared_valid"
    /\ last.op = "setup_index" /\ last.result = "ok"
    /\ last.path = "build" /\ last.ingested
    /\ StorageClass(disk) = "valid"

\* C8: when the storage location exists but cannot be loaded,
\* create_or_load_index with non-empty nodes builds from them and persists,
\* after which create_or_load_index(None) loads that index; with nodes None
\* it raises the "No existing index found" error.
C8_CorruptStorageFallsBack ==
    [][ /\ (IsCall(last') /\ StorageClass(disk) = "corrupt"
              /\ NonEmpty(last'.nodes) /\ Unfaulted(last')) =>
            /\ last'.result = "ok"
            /\ last'.path = "build"
            /\ index' = Index(last'.nodes.list, EmbedAll(last'.nodes.list))
            /\ Holds(disk', last'.nodes.list)
        /\ (IsCall(last) /\ last.pre = "corrupt" /\ last.result = "ok"
              /\ IsCall(last') /\ ~last'.nodes.given) =>
            /\ last'.result = "ok"
            /\ last'.path = "load"
            /\ index'.nodes = last.nodes.list
            /\ index'.vectors = EmbedAll(last.nodes.list)
        /\ (IsCall(last') /\ StorageClass(disk) = "corrupt"
              /\ ~last'.nodes.given) =>
            /\ last'.result = "raised"
            /\ last'.err = ErrNoIndex
            /\ disk' = disk ]_vars

\* C8 witness: a load succeeded right after a build over unloadable storage.
C8_Witness ==
    /\ prev = "built_over_corrupt"
    /\ IsCall(last) /\ ~last.nodes.given
    /\ last.result = "ok" /\ last.path = "load"
    /\ Len(index.nodes) > 0

\* What create_or_load_index(None) gives its caller when the storage location
\* is missing.
MissingOutcome == CreateOrLoad(AbsentDisk, NoIndex, NoNodes, 0, "none", "done")

\* C9: what create_or_load_index(None) gives its caller when the storage
\* location exists but is corrupt is never the error value it gives when the
\* location is missing.
C9_MissingDistinctFromCorrupt ==
    (IsCall(last) /\ ~last.nodes.given /\ last.pre = "corrupt") =>
        <<last.result, last.err>> # <<MissingOutcome.result, MissingOutcome.err>>

\* An index is complete when it holds the vector of each of its chunks.
Complete(ix) == ix.set /\ ix.vectors = EmbedAll(ix.nodes)

\* C10: after the process died in the persist step, a later call that
\* succeeds by loading returns a complete index, never a half-written one.
C10_NoHalfWrittenLoad ==
    (prev = "crashed_in_persist" /\ last.op \in {"create_or_load_index", "setup_index"}
        /\ last.result = "ok" /\ last.path = "load") =>
        Complete(index)

----------------------------------------------------------------------------
\* Retrieval over an index: the query is embedded, every stored vector is
\* scored against it, and the k best chunks are returned, best first, ties in
\* stored order.
Queries == 0..MaxChunk
TopKs == 1..(MaxChunk + 1)

Similarity(u, v) ==
    IF u.vec_of >= v.vec_of THEN MaxChunk - (u.vec_of - v.vec_of)
    ELSE MaxChunk - (v.vec_of - u.vec_of)

\* The positions of an index that hold both a chunk and a vector.
Entries(ix) == { i \in 1..Len(ix.nodes) : i <= Len(ix.vectors) }

\* TopK, were the first k entries taken as they are stored.
RECURSIVE TopKStoredOrder(_, _, _, _)
TopKStoredOrder(ix, q, k, S) ==
    IF k = 0 \/ S = {} THEN <<>>
    ELSE LET b == CHOOSE i \in S : \A j \in S : i <= j
         IN  <<[chunk |-> ix.nodes[b],
                score |-> Similarity(Embed(q), ix.vectors[b])]>>
                 \o TopKStoredOrder(ix, q, k - 1, S \ {b})

\* TopK, were the entries that score zero left out.
RECURSIVE TopKPositiveOnly(_, _, _, _)
TopKPositiveOnly(ix, q, k, S) ==
    LET P == { i \in S : Similarity(Embed(q), ix.vectors[i]) > 0 }
    IN  IF k = 0 \/ P = {} THEN <<>>
        ELSE LET sc(i) == Similarity(Embed(q), ix.vectors[i])
                 b == CHOOSE i \in P :
                          \A j \in P : sc(i) > sc(j) \/ (sc(i) = sc(j) /\ i <= j)
             IN  <<[chunk |-> ix.nodes[b], score |-> sc(b)]>>
                     \o TopKPositiveOnly(ix, q, k - 1, P \ {b})

RECURSIVE TopK(_, _, _, _)
TopK(ix, q, k, S) ==
    IF k = 0 \/ S = {} THEN <<>>
    ELSE LET sc(i) == Similarity(Embed(q), ix.vectors[i])
             b == CHOOSE i \in S :
                      \A j \in S : sc(i) > sc(j) \/ (sc(i) = sc(j) /\ i <= j)
         IN  <<[chunk |-> ix.nodes[b], score |-> sc(b)]>>
                 \o TopK(ix, q, k - 1, S \ {b})

Search(ix, q, k) == TopK(ix, q, k, Entries(ix))

C12_EmbeddingFailureFailsFast ==
    [][ IsCall(last') =>
        /\ (last'.embedCalls > 0 /\ last'.embedCalls < Len(last'.nodes.list)) =>
               (last'.result = "raised" /\ last'.err = ErrEmbedding
                   /\ index' = HandleBefore(last', index) /\ disk' = disk)
        /\ last'.err = ErrEmbedding =>
               (last'.result = "raised" /\ index' = HandleBefore(last', index)
                   /\ disk' = disk)
        /\ (last'.path = "build" /\ last'.result = "ok") =>
               index' = Index(last'.nodes.list, EmbedAll(last'.nodes.list)) ]_vars

C12_Witness ==
    /\ IsCall(last) /\ last.err = ErrEmbedding /\ last.result = "raised"
    /\ last.embedCalls = MaxChunk /\ Len(last.nodes.list) = MaxChunk
    /\ ~last.fresh /\ index.set /\ StorageClass(disk) = "corrupt"

\* C14: after every call of create_or_load_index that succeeded, the storage
\* location exists, holds every file of an index, and holds exactly the
\* chunks and vectors of the index the indexer now has.
C14_SuccessLeavesStorage ==
    (IsCall(last) /\ last.result = "ok") =>
        /\ PathExists(disk)
        /\ disk.docstore.st = "ok" /\ disk.vector_store.st = "ok"
        /\ index.set
        /\ disk.docstore.data = index.nodes
        /\ disk.vector_store.data = index.vectors

C14_Witness ==
    /\ IsCall(last) /\ last.result = "ok" /\ last.path = "build"
    /\ last.pre = "corrupt" /\ Len(index.nodes) = MaxChunk

\* The step just taken asked the indexer for a query engine or a retriever.
IsGet(r) == r.op \in {"get_query_engine", "get_retriever"}

\* C13: a newly constructed indexer has no index, and while the indexer has
\* none, get_query_engine and get_retriever raise "Index not initialized"
\* whatever their arguments, and hand over no engine and no retriever.
C13_UninitializedRaises ==
    /\ last.op = "init" => index = NoIndex
    /\ (IsGet(last) /\ ~index.set) =>
           (last.result = "raised" /\ last.err = ErrNotInitialized
               /\ ~last.made.made)

C13_Witness ==
    /\ last.op = "get_query_engine" /\ last.args.top_k = Some(MaxChunk)
    /\ last.args.mode = Some("refine")
    /\ ~index.set /\ last.result = "raised"
    /\ prev = "crashed_in_persist"

----------------------------------------------------------------------------
\* chunk_documents has returned or raised / has returned its chunks.
Chunked == ing.out # NotChunked
ChunkedOk == ing.out.result = "ok"

\* The configured value of an argument: the one passed, or the default.
Configured(x, default) == IF x.given THEN x.val ELSE default

\* The preconditions of the chunker hold of what it was configured with.
WellConfigured ==
    /\ Configured(ing.args.chunk_size, CHUNK_SIZE) > 0
    /\ Configured(ing.args.chunk_overlap, CHUNK_OVERLAP)
           < Configured(ing.args.chunk_size, CHUNK_SIZE)

\* The preconditions of the chunker hold of what the instance holds.
InstanceWellConfigured ==
    ing.chunk_size > 0 /\ ing.chunk_overlap < ing.chunk_size

\* The characters of the text of a document.
Chars(doc) == TextTokens(doc.text) * ing.width

\* C15: chunk_documents of an empty document list, by a well-configured
\* chunker, returns an empty chunk list and does not raise.
C15_EmptyListReturnsEmpty ==
    (Chunked /\ WellConfigured /\ InstanceWellConfigured /\ ing.documents = <<>>) =>
        (ChunkedOk /\ ing.out.nodes = <<>>)

\* C16: a chunker configured with chunk_size <= 0 or with
\* chunk_overlap >= chunk_size raises a configuration error and produces no
\* chunk.
C16_BadConfigFailsFast ==
    (Chunked /\ ~WellConfigured) =>
        (ing.out.result = "raised" /\ ing.out.err = ErrSplitter
            /\ ing.out.nodes = <<>>)

\* C18: the text of every chunk is at most 2 * chunk_size characters long.
C18_ChunkLengthBound ==
    ChunkedOk =>
        \A k \in 1..Len(ing.out.nodes) :
            ing.out.nodes[k].chars <= ing.chunk_size + ing.chunk_size

OnePerDocument ==
    /\ ChunkedOk
    /\ Len(ing.out.nodes) = Len(ing.documents)
    /\ \A i \in 1..Len(ing.documents) :
           /\ ing.out.nodes[i].doc = i
           /\ ing.out.nodes[i].tokens = TextTokens(ing.documents[i].text)

----------------------------------------------------------------------------
\* The step just taken was a run of setup_index / one whose settings were
\* all there.
IsSetup(r) == r.op = "setup_index"
SettingsValid(r) == r.env.apiKey /\ r.env.docsDir

\* C26: a run of setup_index that finds the API key or the documents
\* directory missing ends the process with status 1 at once: it loads and
\* builds no index, ingests nothing, makes no embedding call and leaves the
\* storage as it was.
C26_MissingSettingExits ==
    [][ (IsSetup(last') /\ ~SettingsValid(last')) =>
           /\ last'.result = "exit1"
           /\ last'.err \in {ErrApiKey, ErrDocsDir}
           /\ last'.path = "none" /\ ~last'.ingested /\ last'.embedCalls = 0
           /\ ~index'.set
           /\ disk' = disk ]_vars

C26_Witness ==
    /\ IsSetup(last) /\ last.env.apiKey /\ ~last.env.docsDir
    /\ last.result = "exit1" /\ last.pre = "valid"

\* C28: whenever create_or_load_index raises, the indexer holds the index it
\* held before the call.
C28_RaiseKeepsHandle ==
    [][ (IsCall(last') /\ last'.result = "raised") =>
            index' = HandleBefore(last', index) ]_vars

\* C29: with every setting there and a storage that loads, setup_index
\* returns the stored index and ingests nothing: no document is loaded or
\* chunked, no chunk is embedded, and the storage is not written.
C29_SetupLoadsWithoutIngesting ==
    [][ (IsSetup(last') /\ SettingsValid(last') /\ StorageClass(disk) = "valid") =>
           /\ last'.result = "ok" /\ last'.path = "load"
           /\ ~last'.ingested /\ last'.embedCalls = 0
           /\ index'.set /\ index' = LoadFromStorage(disk).index
           /\ disk' = disk ]_vars

C29_Witness ==
    /\ IsSetup(last) /\ SettingsValid(last) /\ last.pre = "valid"
    /\ Len(last.docs) = MaxChunk /\ Len(index.nodes) = 1
    /\ prev = "other"

----------------------------------------------------------------------------
\* Questions put to an index: through qa.query, which sets the index up
\* first, or through a retriever or a query engine of the indexer at hand.
RetrieveKs == TopKArgs \cup {Some(1)}

AnswerRecord(op, args, q, pre, setup, result, err, made, results, phase, answer) ==
    [Record(op, FALSE, NoNodes, <<>>, pre, result, err, "none", 0, FALSE)
        EXCEPT !.args = args, !.question = q, !.setup = setup, !.made = made,
               !.results = results, !.phase = phase, !.answer = answer]

\* query_engine.query(question) up to its first completion call: the chunks
\* are retrieved; with none retrieved the response is made without a call.
StartAnswer(op, args, q, pre, setup, ix, e) ==
    IF e.result = "raised"
    THEN AnswerRecord(op, args, q, pre, setup,
                      IF op = "query" THEN "exit1" ELSE "raised", e.err,
                      NoEngine, <<>>, "done", NoAnswer)
    ELSE LET results == Search(ix, q, e.made.top_k)
         IN  IF Len(results) = 0
             THEN AnswerRecord(op, args, q, pre, setup, "ok", "none", e.made,
                               results, "done", FinalResponse(<<>>))
             ELSE AnswerRecord(op, args, q, pre, setup, "pending", "none", e.made,
                               results, "synthesizing", NoAnswer)

\* qa.query(question) in a process of its own.
QaQuery ==
    \E env \in SetupEnvs, q \in Queries :
      \E ft \in Faults(env[1] /\ env[2] /\ ~UseStored(disk, NoNodes)
                         /\ Process(env[3]).ok, env[3]) :
        /\ last.phase = "done"
        /\ LET s == SetupIndexOp(disk, env[1], env[2], env[3], ft[1], ft[2], ft[3])
           IN  /\ disk' = s.disk
               /\ index' = s.index
               /\ last' = IF SetupReturned(s)
                          THEN StartAnswer("query", NoArgs, q, StorageClass(disk),
                                           s.result, s.index,
                                           GetQueryEngineOp(s.index, None, NoneMode))
                          ELSE AnswerRecord("query", NoArgs, q, StorageClass(disk),
                                            s.result, s.result, s.err, NoEngine,
                                            <<>>, "done", NoAnswer)
        /\ prev' = Summary(last)
        /\ ing' = ing

\* indexer.get_query_engine(similarity_top_k, response_mode).query(question)
EngineQuery ==
    \E k \in RetrieveKs, m \in ModeArgs, q \in Queries :
        /\ last.phase = "done"
        /\ last' = StartAnswer("engine_query", [top_k |-> k, mode |-> m], q,
                               StorageClass(disk), "none", index,
                               GetQueryEngineOp(index, k, m))
        /\ prev' = Summary(last)
        /\ UNCHANGED <<disk, index, ing>>

\* indexer.get_retriever(similarity_top_k).retrieve(question)
RetrieveCall ==
    \E k \in RetrieveKs, q \in Queries :
        /\ last.phase = "done"
        /\ LET r == GetRetrieverOp(index, k)
           IN  last' = AnswerRecord("retrieve", [top_k |-> k, mode |-> NoneMode], q,
                                    StorageClass(disk), "none", r.result, r.err,
                                    r.made,
                                    IF r.result = "ok"
                                    THEN Search(index, q, r.made.top_k) ELSE <<>>,
                                    "done", NoAnswer)
        /\ prev' = Summary(last)
        /\ UNCHANGED <<disk, index, ing>>

\* One completion call of the synthesizer of the answer in progress; the
\* last one completes the response.
CompletionCall ==
    /\ last.phase = "synthesizing"
    /\ LET prompts == SynthesisPrompts(last.made.mode, last.results)
           i == Len(last.calls) + 1
       IN  \E out \in LLMOutputs \cup {LLMFailed} :
             IF out = LLMFailed
             THEN last' = [last EXCEPT
                              !.phase = "done",
                              !.result = IF last.op = "query" THEN "exit1" ELSE "raised",
                              !.err = ErrCompletion]
             ELSE LET calls == Append(last.calls,
                                      Call(prompts[i], Running(last.calls), out))
                  IN  last' = [last EXCEPT
                                  !.calls = calls,
                                  !.phase = IF i = Len(prompts) THEN "done"
                                            ELSE "synthesizing",
                                  !.result = IF i = Len(prompts) THEN "ok"
                                             ELSE "pending",
                                  !.answer = IF i = Len(prompts)
                                             THEN FinalResponse(calls) ELSE NoAnswer]
    /\ UNCHANGED <<disk, index, prev, ing>>

\* The storage a question can find: none, or the index an earlier
\* create_or_load_index built from some list of chunks and persisted.
InitAnswer ==
    /\ disk \in {AbsentDisk}
                 \cup { Persist(AbsentDisk, Index(l, EmbedAll(l)), "done") :
                            l \in NodeLists }
    /\ index = NoIndex
    /\ last = InitRecord
    /\ prev = Summary(InitRecord)
    /\ ing = Ingestion(None, None, <<>>, 1, NotChunked)

NextAnswer == QaQuery \/ EngineQuery \/ RetrieveCall \/ CompletionCall

SpecAnswer == InitAnswer /\ [][NextAnswer]_vars

----------------------------------------------------------------------------
\* The step just taken retrieved / answered, and came back.
Retrieved == last.op = "retrieve" /\ last.result = "ok"
IsAnswer(r) == r.op \in {"query", "engine_query"}
Answered == IsAnswer(last) /\ last.phase = "done" /\ last.result = "ok"

C23_EffectiveTopK ==
    ((IsAnswer(last) \/ last.op = "retrieve") /\ last.made.made) =>
        /\ last.args.top_k.given => last.made.top_k = last.args.top_k.val
        /\ ~last.args.top_k.given => last.made.top_k = TOP_K
        /\ last.made.top_k >= 1

RefinedInOrder ==
    /\ Len(last.calls) <= Len(last.results)
    /\ \A i \in 1..Len(last.calls) :
           /\ last.calls[i].chunks = <<last.results[i].chunk>>
           /\ \A j \in 1..Len(last.calls) :
                  j + 1 = i => last.calls[i].running = Some(last.calls[j].out)
    /\ Len(last.calls) > 0 => last.calls[1].running = NoAnswer
    /\ (last.phase = "done" /\ last.result = "ok") => Len(last.calls) = Len(last.results)

C27_SuppliedSizesUsed ==
    Chunked =>
        /\ ing.chunk_size = Configured(ing.args.chunk_size, CHUNK_SIZE)
        /\ ing.chunk_overlap = Configured(ing.args.chunk_overlap, CHUNK_OVERLAP)

\* C30: setup_index hands back an indexer only with its index set, and ends
\* the process with status 1 otherwise; after a setup that did not return,
\* query asks for no engine and puts no question.
C30_SetupReturnsIndexOrExits ==
    last.op = "query" =>
        /\ last.setup \in {"ok", "exit1", "crash"}
        /\ last.setup = "ok" => index.set
        /\ last.setup # "ok" =>
               /\ last.result = last.setup
               /\ last.err # ErrNotInitialized
               /\ ~last.made.made /\ last.results = <<>> /\ last.calls = <<>>

C30_Witness ==
    /\ last.op = "query" /\ last.setup = "exit1" /\ last.pre = "corrupt"
    /\ last.err = ErrEmbedding

====
